---- MODULE Spec2Model ----
(***************************************************************************)
(* now-working: attendance sessions (checkin / checkout / reports) behind  *)
(* two chat adapters (Slack slash commands, Chatwork webhooks).            *)
(*                                                                         *)
(* The database tables are sequences of rows; a row's id is its index.     *)
(* A Date is the pair <<day, ms>>: day = days since 1970-01-01 in local    *)
(* time, ms = milliseconds into that day (0 .. MsPerDay-1).  The pair      *)
(* keeps millisecond precision without leaving TLC's integer range.        *)
(***************************************************************************)
EXTENDS Integers, Sequences, FiniteSets, TLC

VARIABLES
    users,        \* table User:           <<[slackUserId, chatworkUserId]>>
    orgs,         \* table Organization:   <<[slug]>>
    memberships,  \* table Membership:     <<[userId, organizationId, role, status]>>
    sessions,     \* table WorkingSession: <<[userId, organizationId, checkinAt, checkoutAt, note]>>
    now,          \* the wall clock read by `new Date()`
    calls,        \* calls and requests in flight: call id -> [pc, op, userId, organizationId, note, active, activeNote, outcome, via, platformId, reply]
    last          \* what the last completed request did (observation only)

vars == <<users, orgs, memberships, sessions, now, calls, last>>

-----------------------------------------------------------------------------
(* Bounds of the model *)

MaxUsers == 2
MaxOrgs == 2
MaxSessions == 2
MaxCalls == 2
BodyMaxLen == 3

-----------------------------------------------------------------------------
(* Values *)

\* A text (a JavaScript string) is a sequence of tokens, each token a block of
\* characters of one kind: Sp is a run of blanks, Nl a line break, any other
\* token a run of non-blank characters.  Two non-blank tokens side by side are
\* written without a gap: <<"/checkin", "office">> is the text "/checkinoffice".
\* A text that begins with the characters of a command ("/checkin", ...) has
\* them as its first token.  The empty string is <<>>.
Sp == " "
Nl == "\n"
EmptyText == <<>>

\* JavaScript's undefined and SQL NULL for an optional string; NULL for DateTime?
UNDEFINED == <<"<undefined>">>
NULL == <<"<null>">>
NullDate == <<>>

\* JavaScript truthiness of an optional string
Truthy(v) == v \notin {UNDEFINED, NULL, EmptyText}

\* what Prisma stores for an optional column given undefined
Stored(v) == IF v = UNDEFINED THEN NULL ELSE v

\* a || b
OrElse(a, b) == IF Truthy(a) THEN a ELSE b

-----------------------------------------------------------------------------
(* Dates *)

MsPerDay == 24 * 60 * 60 * 1000
MsPerHour == 1000 * 60 * 60

IsLeap(y) == (y % 4 = 0 /\ y % 100 # 0) \/ y % 400 = 0

DaysInMonth(y, m0) ==
    IF m0 = 1 THEN (IF IsLeap(y) THEN 29 ELSE 28)
    ELSE IF m0 \in {3, 5, 8, 10} THEN 30 ELSE 31

\* days from 1970-01-01 to January 1st of year y
DaysBeforeYear(y) ==
    LET n(k) == 365 * (k - 1) + ((k - 1) \div 4) - ((k - 1) \div 100) + ((k - 1) \div 400)
    IN  n(y) - n(1970)

RECURSIVE DaysBeforeMonth(_, _)
DaysBeforeMonth(y, m0) ==
    IF m0 = 0 THEN 0 ELSE DaysBeforeMonth(y, m0 - 1) + DaysInMonth(y, m0 - 1)

\* new Date(year, monthIndex, day, hours, minutes, seconds, ms) in local time:
\* an out-of-range month index or day carries into the next field up
MakeDate(year, monthIndex, day, h, mi, s, ms) ==
    LET y == year + (monthIndex \div 12)
        m0 == monthIndex % 12
        t == ((h * 60 + mi) * 60 + s) * 1000 + ms
        d == DaysBeforeYear(y) + DaysBeforeMonth(y, m0) + (day - 1)
    IN  <<d + (t \div MsPerDay), t % MsPerDay>>

\* a <= b on Dates (Prisma's lte / gte, and getTime() order)
DateLeq(a, b) == a[1] < b[1] \/ (a[1] = b[1] /\ a[2] <= b[2])

\* b.getTime() - a.getTime(), as <<whole days, ms>> with 0 <= ms < MsPerDay
DateDiff(b, a) ==
    LET ms == b[2] - a[2]
    IN  IF ms >= 0 THEN <<b[1] - a[1], ms>> ELSE <<b[1] - a[1] - 1, ms + MsPerDay>>

\* an elapsed time d / (1000 * 60 * 60): a number of hours, kept exact as
\* <<whole hours, remaining ms>> (the code's floating value is h + ms / MsPerHour)
Hours(d) == <<d[1] * 24 + (d[2] \div MsPerHour), d[2] % MsPerHour>>

\* x + y on hours
AddHours(x, y) ==
    LET ms == x[2] + y[2]
    IN  <<x[1] + y[1] + (ms \div MsPerHour), ms % MsPerHour>>

\* the instants the clock can show, in increasing order
ClockInstants ==
    << MakeDate(2024, 0, 31, 23, 59, 59, 999),
       MakeDate(2024, 1, 1, 0, 0, 0, 0),
       MakeDate(2024, 1, 10, 9, 0, 0, 0),
       MakeDate(2024, 1, 10, 17, 30, 0, 0),
       MakeDate(2024, 1, 29, 23, 59, 59, 0),
       MakeDate(2024, 1, 29, 23, 59, 59, 999),
       MakeDate(2024, 2, 1, 0, 0, 0, 0) >>

ClockSet == {ClockInstants[i] : i \in DOMAIN ClockInstants}

-----------------------------------------------------------------------------
(* Observation record *)

\* op: the request; via: "engine" (a direct call), "slack" or "chatwork";
\* platformId: the chat platform's user id; userId / organizationId / note: the
\* arguments that reached the engine (0 / UNDEFINED when none did); outcome: "ok"
\* or the error raised; session: the id of the session returned; reply: the
\* category of the chat reply; engine: whether an engine operation was invoked;
\* ack: the Slack command was acknowledged; http: the webhook's status code;
\* year / month / list / total: a report's arguments, session ids and elapsed
\* time; body: the webhook message's body; command / param: what parseCommand
\* made of it; orgs: the sequence getUserOrganizations returned; from / to: the
\* range of a range query; text: the Slack command's text; shown: the working
\* time a checkout confirmation shows; seq flips with every request, so that
\* no request looks like no step.
NoLast ==
    [op |-> "none", via |-> "none", platformId |-> NULL, userId |-> 0,
     organizationId |-> 0, note |-> UNDEFINED, outcome |-> "none",
     reply |-> "none", engine |-> FALSE, session |-> 0, ack |-> FALSE, http |-> 0,
     year |-> 0, month |-> 0, list |-> <<>>, total |-> <<0, 0>>,
     body |-> NULL, command |-> "none", param |-> UNDEFINED, orgs |-> <<>>,
     from |-> NullDate, to |-> NullDate, text |-> NULL, shown |-> <<>>,
     seq |-> 0]

\* the record of the request that has just completed
Record(rec) == [rec EXCEPT !.seq = 1 - last.seq]

IdleCall ==
    [pc |-> "idle", op |-> "none", userId |-> 0, organizationId |-> 0,
     note |-> UNDEFINED, active |-> 0, activeNote |-> NULL, outcome |-> "none",
     via |-> "none", platformId |-> NULL, reply |-> "none"]

Init ==
    /\ users = <<>>
    /\ orgs = <<>>
    /\ memberships = <<>>
    /\ sessions = <<>>
    /\ now = ClockInstants[1]
    /\ calls = [c \in 1..MaxCalls |-> IdleCall]
    /\ last = NoLast

-----------------------------------------------------------------------------
(* Provisioning: UserService.createUser, OrganizationService.createOrganization *)

\* prisma.user.create: slackUserId and chatworkUserId are @unique (NULLs do not clash)
UserClash(U, slack, cw) ==
    \E i \in DOMAIN U :
        \/ (slack # NULL /\ U[i].slackUserId = slack)
        \/ (cw # NULL /\ U[i].chatworkUserId = cw)

CreateUser(slack, cw) ==
    /\ Len(users) < MaxUsers
    /\ ~UserClash(users, slack, cw)
    /\ users' = Append(users, [slackUserId |-> slack, chatworkUserId |-> cw])
    /\ UNCHANGED <<orgs, memberships, sessions, now, calls, last>>

\* one transaction: the organization row, then the creator's membership
\* (role OWNER, status by the schema's default ACTIVE)
CreateOrganization(slug, creatorUserId) ==
    /\ Len(orgs) < MaxOrgs
    /\ creatorUserId \in DOMAIN users
    /\ \A i \in DOMAIN orgs : orgs[i].slug # slug
    /\ orgs' = Append(orgs, [slug |-> slug])
    /\ memberships' = Append(memberships,
            [userId |-> creatorUserId, organizationId |-> Len(orgs) + 1,
             role |-> "OWNER", status |-> "ACTIVE"])
    /\ UNCHANGED <<users, sessions, now, calls, last>>

\* the clock moves on to a later instant of K
Tick(K) ==
    /\ \E t \in K : t # now /\ DateLeq(now, t) /\ now' = t
    /\ UNCHANGED <<users, orgs, memberships, sessions, calls, last>>

-----------------------------------------------------------------------------
(* WorkingSessionService: the attendance engine *)

\* a query that forgets checkoutAt: null
AnySessionIds(S, userId, organizationId) ==
    {i \in DOMAIN S : S[i].userId = userId /\ S[i].organizationId = organizationId}

\* a query that forgets userId
OpenSessionIdsOfAnyUser(S, userId, organizationId) ==
    {i \in DOMAIN S : S[i].organizationId = organizationId /\ S[i].checkoutAt = NullDate}

\* the rows matched by {userId, organizationId, checkoutAt: null}
OpenSessionIds(S, userId, organizationId) ==
    {i \in DOMAIN S : /\ S[i].userId = userId
                      /\ S[i].organizationId = organizationId
                      /\ S[i].checkoutAt = NullDate}

\* getActiveSession: findFirst without an order returns any matching row;
\* 0 stands for null.  The set holds every result the query may give.
getActiveSession(S, userId, organizationId) ==
    IF OpenSessionIds(S, userId, organizationId) = {} THEN {0}
    ELSE OpenSessionIds(S, userId, organizationId)

\* a create that loses the note
NewSessionWithoutNote(userId, organizationId, note, t) ==
    [userId |-> userId, organizationId |-> organizationId,
     checkinAt |-> t, checkoutAt |-> NullDate, note |-> NULL]

\* the row prisma.workingSession.create writes
NewSession(userId, organizationId, note, t) ==
    [userId |-> userId, organizationId |-> organizationId,
     checkinAt |-> t, checkoutAt |-> NullDate, note |-> Stored(note)]

\* an update that writes the note and forgets checkoutAt
ClosedSessionStillOpen(row, activeNote, note, t) ==
    [row EXCEPT !.note = OrElse(note, activeNote)]

\* the row prisma.workingSession.update leaves: checkoutAt and note are set
ClosedSession(row, activeNote, note, t) ==
    [row EXCEPT !.checkoutAt = t, !.note = OrElse(note, activeNote)]

\* a checkin that never looks at the open session
CheckinNeverThrows(active) == FALSE

\* checkin, given what getActiveSession returned
CheckinThrows(active) == active # 0

checkinWrite(S, userId, organizationId, note, t) ==
    [sessions |-> Append(S, NewSession(userId, organizationId, note, t)),
     outcome |-> "ok", session |-> Len(S) + 1]

\* checkout, given what getActiveSession returned
CheckoutThrows(active) == active = 0

checkoutWrite(S, active, activeNote, note, t) ==
    [sessions |-> [S EXCEPT ![active] = ClosedSession(S[active], activeNote, note, t)],
     outcome |-> "ok", session |-> active]

\* the whole of checkin, run without interruption: every result it may give
checkin(S, userId, organizationId, note, t) ==
    { IF CheckinThrows(active)
        THEN [sessions |-> S, outcome |-> "AlreadyCheckedIn", session |-> 0]
        ELSE checkinWrite(S, userId, organizationId, note, t)
      : active \in getActiveSession(S, userId, organizationId) }

\* the whole of checkout, run without interruption
checkout(S, userId, organizationId, note, t) ==
    { IF CheckoutThrows(active)
        THEN [sessions |-> S, outcome |-> "NotCheckedIn", session |-> 0]
        ELSE checkoutWrite(S, active, S[active].note, note, t)
      : active \in getActiveSession(S, userId, organizationId) }

NoCallInFlight == \A c \in DOMAIN calls : calls[c].pc = "idle"

\* a direct call of the engine that runs to completion on its own
Checkin(userId, organizationId, note) ==
    /\ NoCallInFlight
    /\ userId \in DOMAIN users /\ organizationId \in DOMAIN orgs
    /\ \E r \in checkin(sessions, userId, organizationId, note, now) :
        /\ Len(r.sessions) <= MaxSessions
        /\ sessions' = r.sessions
        /\ last' = Record([NoLast EXCEPT !.op = "checkin", !.via = "engine",
                        !.userId = userId, !.organizationId = organizationId,
                        !.note = note, !.outcome = r.outcome,
                        !.session = r.session, !.engine = TRUE])
    /\ UNCHANGED <<users, orgs, memberships, now, calls>>

Checkout(userId, organizationId, note) ==
    /\ NoCallInFlight
    /\ userId \in DOMAIN users /\ organizationId \in DOMAIN orgs
    /\ \E r \in checkout(sessions, userId, organizationId, note, now) :
        /\ sessions' = r.sessions
        /\ last' = Record([NoLast EXCEPT !.op = "checkout", !.via = "engine",
                        !.userId = userId, !.organizationId = organizationId,
                        !.note = note, !.outcome = r.outcome,
                        !.session = r.session, !.engine = TRUE])
    /\ UNCHANGED <<users, orgs, memberships, now, calls>>

-----------------------------------------------------------------------------
(* The engine called directly, one request at a time *)

EngineLinks == {<<<<"S1">>, <<"C1">>>>}
EngineSlugs == {<<"acme">>, <<"beta">>}
EngineClock == {ClockInstants[i] : i \in 1..2}
EngineCheckinNotes == {UNDEFINED, EmptyText, <<"office">>}
EngineCheckoutNotes == {UNDEFINED, EmptyText, <<"home">>}

EngineNext ==
    \/ \E l \in EngineLinks : CreateUser(l[1], l[2])
    \/ \E g \in EngineSlugs, u \in 1..MaxUsers : CreateOrganization(g, u)
    \/ \E u \in 1..MaxUsers, o \in 1..MaxOrgs, n \in EngineCheckinNotes : Checkin(u, o, n)
    \/ \E u \in 1..MaxUsers, o \in 1..MaxOrgs, n \in EngineCheckoutNotes : Checkout(u, o, n)
    \/ Tick(EngineClock)

EngineSpec == Init /\ [][EngineNext]_vars

-----------------------------------------------------------------------------
(* Reports *)

Range(f) == {f[i] : i \in DOMAIN f}

\* a range with lt in place of lte
SessionIdsBeforeEnd(S, userId, organizationId, startDate, endDate) ==
    {i \in DOMAIN S : /\ S[i].userId = userId
                      /\ S[i].organizationId = organizationId
                      /\ DateLeq(startDate, S[i].checkinAt)
                      /\ DateLeq(S[i].checkinAt, endDate)
                      /\ S[i].checkinAt # endDate}

\* the rows matched by {userId, organizationId, checkinAt: {gte, lte}}
SessionIdsInRange(S, userId, organizationId, startDate, endDate) ==
    {i \in DOMAIN S : /\ S[i].userId = userId
                      /\ S[i].organizationId = organizationId
                      /\ DateLeq(startDate, S[i].checkinAt)
                      /\ DateLeq(S[i].checkinAt, endDate)}

\* getSessionsByDateRange: the matching rows ordered by checkinAt ascending;
\* rows with equal checkinAt come in any order.  Every result the query may give.
getSessionsByDateRange(S, userId, organizationId, startDate, endDate) ==
    LET ids == SessionIdsInRange(S, userId, organizationId, startDate, endDate)
    IN  {l \in [1..Cardinality(ids) -> ids] :
            /\ \A j, k \in DOMAIN l : j # k => l[j] # l[k]
            /\ \A j, k \in DOMAIN l : j < k => DateLeq(S[l[j]].checkinAt, S[l[k]].checkinAt)}

\* the forEach of getMonthlyReport: totalWorkingHours over the listed sessions
RECURSIVE TotalWorkingHours(_, _)
TotalWorkingHours(S, l) ==
    IF l = <<>> THEN <<0, 0>>
    ELSE LET row == S[Head(l)]
             rest == TotalWorkingHours(S, Tail(l))
         IN  IF row.checkoutAt # NullDate
             THEN AddHours(Hours(DateDiff(row.checkoutAt, row.checkinAt)), rest)
             ELSE rest

\* new Date(year, month - 1, 1) and new Date(year, month, 0, 23, 59, 59)
MonthStartDate(year, month) == MakeDate(year, month - 1, 1, 0, 0, 0, 0)
MonthEndDate(year, month) == MakeDate(year, month, 0, 23, 59, 59, 0)

\* getMonthlyReport: every result it may give
getMonthlyReport(S, userId, organizationId, year, month) ==
    { [totalWorkingHours |-> TotalWorkingHours(S, l), sessions |-> l]
      : l \in getSessionsByDateRange(S, userId, organizationId,
                                     MonthStartDate(year, month),
                                     MonthEndDate(year, month)) }

MonthlyReport(userId, organizationId, year, month) ==
    /\ NoCallInFlight
    /\ userId \in DOMAIN users /\ organizationId \in DOMAIN orgs
    /\ \E r \in getMonthlyReport(sessions, userId, organizationId, year, month) :
        last' = Record([NoLast EXCEPT !.op = "report", !.via = "engine",
                        !.userId = userId, !.organizationId = organizationId,
                        !.outcome = "ok", !.engine = TRUE,
                        !.year = year, !.month = month,
                        !.list = r.sessions, !.total = r.totalWorkingHours])
    /\ UNCHANGED <<users, orgs, memberships, sessions, now, calls>>

ReportLinks == {<<<<"S1">>, <<"C1">>>>}
ReportSlugs == {<<"acme">>}
ReportNotes == {UNDEFINED}
ReportMonths == {<<2024, 1>>, <<2024, 2>>, <<2024, 3>>}

ReportNext ==
    \/ \E l \in ReportLinks : CreateUser(l[1], l[2])
    \/ \E g \in ReportSlugs, u \in 1..MaxUsers : CreateOrganization(g, u)
    \/ \E u \in 1..MaxUsers, o \in 1..MaxOrgs, n \in ReportNotes : Checkin(u, o, n)
    \/ \E u \in 1..MaxUsers, o \in 1..MaxOrgs, n \in ReportNotes : Checkout(u, o, n)
    \/ \E u \in 1..MaxUsers, o \in 1..MaxOrgs, ym \in ReportMonths :
          MonthlyReport(u, o, ym[1], ym[2])
    \/ Tick(ClockSet)

ReportSpec == Init /\ [][ReportNext]_vars

-----------------------------------------------------------------------------
(* Engine calls handled concurrently.  A call suspends at each await: between *)
(* its getActiveSession query and its create / update other calls may run.    *)

\* checkin(...) or checkout(...) is entered; its first statement awaits the query
CallBegin(c, op, userId, organizationId, note) ==
    /\ calls[c].pc = "idle"
    /\ userId \in DOMAIN users /\ organizationId \in DOMAIN orgs
    /\ calls' = [calls EXCEPT ![c] =
            [IdleCall EXCEPT !.pc = "read", !.op = op, !.userId = userId,
                             !.organizationId = organizationId, !.note = note]]
    /\ UNCHANGED <<users, orgs, memberships, sessions, now, last>>

\* the query answers; the call throws or goes on to its write
CallRead(c) ==
    /\ calls[c].pc = "read"
    /\ \E active \in getActiveSession(sessions, calls[c].userId, calls[c].organizationId) :
        calls' = [calls EXCEPT ![c] =
            IF calls[c].op = "checkin"
            THEN IF CheckinThrows(active)
                 THEN [@ EXCEPT !.pc = "done", !.outcome = "AlreadyCheckedIn"]
                 ELSE [@ EXCEPT !.pc = "write"]
            ELSE IF CheckoutThrows(active)
                 THEN [@ EXCEPT !.pc = "done", !.outcome = "NotCheckedIn"]
                 ELSE [@ EXCEPT !.pc = "write", !.active = active,
                                !.activeNote = sessions[active].note]]
    /\ UNCHANGED <<users, orgs, memberships, sessions, now, last>>

\* the create / update, with `new Date()` read as the call resumes
CallWrite(c) ==
    /\ calls[c].pc = "write"
    /\ LET r == IF calls[c].op = "checkin"
                THEN checkinWrite(sessions, calls[c].userId, calls[c].organizationId,
                                  calls[c].note, now)
                ELSE checkoutWrite(sessions, calls[c].active, calls[c].activeNote,
                                   calls[c].note, now)
       IN /\ Len(r.sessions) <= MaxSessions
          /\ sessions' = r.sessions
          /\ calls' = [calls EXCEPT ![c] =
                [@ EXCEPT !.pc = "done", !.outcome = r.outcome, !.active = r.session]]
    /\ UNCHANGED <<users, orgs, memberships, now, last>>

\* the caller has its result
CallReturn(c) ==
    /\ calls[c].pc = "done"
    /\ calls' = [calls EXCEPT ![c] = IdleCall]
    /\ UNCHANGED <<users, orgs, memberships, sessions, now, last>>

ConcLinks == {<<<<"S1">>, <<"C1">>>>}
ConcSlugs == {<<"acme">>, <<"beta">>}
ConcNotes == {UNDEFINED, <<"home">>}
ConcClock == {ClockInstants[i] : i \in 1..2}

Next ==
    \/ \E l \in ConcLinks : CreateUser(l[1], l[2])
    \/ \E g \in ConcSlugs, u \in 1..MaxUsers : CreateOrganization(g, u)
    \/ \E c \in 1..MaxCalls, op \in {"checkin", "checkout"}, u \in 1..MaxUsers,
          o \in 1..MaxOrgs, n \in ConcNotes : CallBegin(c, op, u, o, n)
    \/ \E c \in 1..MaxCalls : CallRead(c)
    \/ \E c \in 1..MaxCalls : CallWrite(c)
    \/ \E c \in 1..MaxCalls : CallReturn(c)
    \/ Tick(ConcClock)

Spec == Init /\ [][Next]_vars

-----------------------------------------------------------------------------
(* Memberships: UserService / OrganizationService *)

MembershipOf(M, userId, organizationId) ==
    {i \in DOMAIN M : M[i].userId = userId /\ M[i].organizationId = organizationId}

\* prisma.membership.create with status INVITED; (userId, organizationId) is unique
InviteUser(userId, organizationId, role) ==
    /\ userId \in DOMAIN users /\ organizationId \in DOMAIN orgs
    /\ MembershipOf(memberships, userId, organizationId) = {}
    /\ memberships' = Append(memberships,
            [userId |-> userId, organizationId |-> organizationId,
             role |-> role, status |-> "INVITED"])
    /\ UNCHANGED <<users, orgs, sessions, now, calls, last>>

\* prisma.membership.update({where: {id}, data: {status: ACTIVE}})
AcceptInvitation(membershipId) ==
    /\ membershipId \in DOMAIN memberships
    /\ memberships' = [memberships EXCEPT ![membershipId].status = "ACTIVE"]
    /\ UNCHANGED <<users, orgs, sessions, now, calls, last>>

\* prisma.membership.update({where: {userId_organizationId}, data: {status: LEFT}})
RemoveUser(organizationId, userId) ==
    /\ MembershipOf(memberships, userId, organizationId) # {}
    /\ memberships' = [i \in DOMAIN memberships |->
            IF i \in MembershipOf(memberships, userId, organizationId)
            THEN [memberships[i] EXCEPT !.status = "LEFT"] ELSE memberships[i]]
    /\ UNCHANGED <<users, orgs, sessions, now, calls, last>>

\* findUnique({where: {slackUserId}}): the user's id, 0 for null
findBySlackUserId(U, slackUserId) ==
    IF \E i \in DOMAIN U : U[i].slackUserId = slackUserId
    THEN CHOOSE i \in DOMAIN U : U[i].slackUserId = slackUserId ELSE 0

\* a lookup of the Chatwork account id in the Slack column
findByChatworkUserIdAmongSlackIds(U, chatworkUserId) ==
    IF \E i \in DOMAIN U : U[i].slackUserId = chatworkUserId
    THEN CHOOSE i \in DOMAIN U : U[i].slackUserId = chatworkUserId ELSE 0

\* findUnique({where: {chatworkUserId}})
findByChatworkUserId(U, chatworkUserId) ==
    IF \E i \in DOMAIN U : U[i].chatworkUserId = chatworkUserId
    THEN CHOOSE i \in DOMAIN U : U[i].chatworkUserId = chatworkUserId ELSE 0

\* a filter that forgets status: ACTIVE
IsAnyStatusOf(userId, m) == m.userId = userId

\* a filter that only leaves out the members who left
IsNotLeftOf(userId, m) == m.userId = userId /\ m.status # "LEFT"

IsActiveOf(userId, m) == m.userId = userId /\ m.status = "ACTIVE"

\* the orders in which a findMany without orderBy may return the rows `ids`
Orderings(ids) ==
    {l \in [1..Cardinality(ids) -> ids] : \A j, k \in DOMAIN l : j # k => l[j] # l[k]}

\* getUserOrganizations: the organizations of the user's ACTIVE memberships,
\* in the order the membership rows come back.  Every result the query may give.
getUserOrganizations(M, userId) ==
    { [i \in DOMAIN l |-> M[l[i]].organizationId]
      : l \in Orderings({i \in DOMAIN M : IsActiveOf(userId, M[i])}) }

\* a query that forgets checkoutAt: null
AllSessionIdsOf(S, organizationId) ==
    {i \in DOMAIN S : S[i].organizationId = organizationId}

\* the rows matched by {organizationId, checkoutAt: null}
ActiveSessionIdsOf(S, organizationId) ==
    {i \in DOMAIN S : S[i].organizationId = organizationId /\ S[i].checkoutAt = NullDate}

\* getAllActiveSessions: the open sessions of the organization (each with its
\* user included), in the order the rows come back.  Every result it may give.
getAllActiveSessions(S, organizationId) ==
    Orderings(ActiveSessionIdsOf(S, organizationId))

-----------------------------------------------------------------------------
(* Texts *)

IsBlank(tok) == tok \in {Sp, Nl}

RECURSIVE TrimStart(_)
TrimStart(text) ==
    IF text # <<>> /\ IsBlank(Head(text)) THEN TrimStart(Tail(text)) ELSE text

RECURSIVE TrimEnd(_)
TrimEnd(text) ==
    IF text # <<>> /\ IsBlank(text[Len(text)])
    THEN TrimEnd(SubSeq(text, 1, Len(text) - 1)) ELSE text

\* String.prototype.trim
Trim(text) == TrimEnd(TrimStart(text))

-----------------------------------------------------------------------------
(* What a handler did: the reply it gave and the engine's result *)

\* a reply given before any engine call
Replied(S, reply) ==
    [reply |-> reply, engine |-> FALSE, sessions |-> S, outcome |-> "none",
     session |-> 0, userId |-> 0, organizationId |-> 0, note |-> UNDEFINED,
     list |-> <<>>, orgs |-> <<>>, shown |-> <<>>]

\* hours.toFixed(2): the hours h rounded to hundredths, as a count of hundredths
ToFixed2(h) == h[1] * 100 + ((h[2] * 100 + (MsPerHour \div 2)) \div MsPerHour)

\* const hours = session.checkoutAt && (checkoutAt.getTime() - checkinAt.getTime())
\* / (1000 * 60 * 60), shown as `${hours ? hours.toFixed(2) : '計算エラー'}`:
\* a null checkoutAt and the number 0 are both falsy
HoursShown(row) ==
    IF row.checkoutAt = NullDate \/ DateDiff(row.checkoutAt, row.checkinAt) = <<0, 0>>
    THEN <<"calc-error">>
    ELSE <<"hours", ToFixed2(Hours(DateDiff(row.checkoutAt, row.checkinAt)))>>

\* the working time in the reply: only the checkout confirmation has one
Shown(r, okReply) ==
    IF r.outcome = "ok" /\ okReply = "checked-out"
    THEN HoursShown(r.sessions[r.session]) ELSE <<>>

\* a handler that takes the last organization of the sequence
LastOrganization(organizations) == organizations[Len(organizations)]

\* const organization = organizations[0]
organization(organizations) == organizations[1]

\* a catch clause that lets the engine's error escape the handler
AttendedRethrows(r, okReply, userId, organizations, note) ==
    [reply |-> IF r.outcome = "ok" THEN okReply ELSE "none", engine |-> TRUE,
     sessions |-> r.sessions, outcome |-> r.outcome, session |-> r.session,
     userId |-> userId, organizationId |-> organization(organizations), note |-> note,
     list |-> <<>>, orgs |-> organizations, shown |-> Shown(r, okReply)]

\* the try block after engine.checkin / engine.checkout on organizations[0]
\* returned or threw: the confirmation, or the catch clause's error text
Attended(r, okReply, userId, organizations, note) ==
    [reply |-> IF r.outcome = "ok" THEN okReply ELSE "error", engine |-> TRUE,
     sessions |-> r.sessions, outcome |-> r.outcome, session |-> r.session,
     userId |-> userId, organizationId |-> organization(organizations), note |-> note,
     list |-> <<>>, orgs |-> organizations, shown |-> Shown(r, okReply)]

\* the roster of the status command for organizations[0]
Roster(S, organizations) ==
    { [reply |-> IF Len(activeSessions) = 0 THEN "nobody-working" ELSE "roster",
       engine |-> TRUE, sessions |-> S, outcome |-> "ok", session |-> 0,
       userId |-> 0, organizationId |-> organization(organizations), note |-> UNDEFINED,
       list |-> activeSessions, orgs |-> organizations, shown |-> <<>>]
      : activeSessions \in getAllActiveSessions(S, organization(organizations)) }

-----------------------------------------------------------------------------
(* SlackCommandHandler *)

\* command.text ? command.text.trim() : undefined
SlackNote(text) == IF Truthy(text) THEN Trim(text) ELSE UNDEFINED

slackCheckin(U, M, S, slackUserId, text, t) ==
    LET user == findBySlackUserId(U, slackUserId)
    IN  IF user = 0 THEN {Replied(S, "registration-required")}
        ELSE UNION {
            IF Len(organizations) = 0 THEN {Replied(S, "no-organization")}
            ELSE {Attended(r, "checked-in", user, organizations, SlackNote(text))
                  : r \in checkin(S, user, organization(organizations), SlackNote(text), t)}
            : organizations \in getUserOrganizations(M, user) }

slackCheckout(U, M, S, slackUserId, text, t) ==
    LET user == findBySlackUserId(U, slackUserId)
    IN  IF user = 0 THEN {Replied(S, "registration-required")}
        ELSE UNION {
            IF Len(organizations) = 0 THEN {Replied(S, "no-organization")}
            ELSE {Attended(r, "checked-out", user, organizations, SlackNote(text))
                  : r \in checkout(S, user, organization(organizations), SlackNote(text), t)}
            : organizations \in getUserOrganizations(M, user) }

slackStatus(U, M, S, slackUserId) ==
    LET user == findBySlackUserId(U, slackUserId)
    IN  IF user = 0 THEN {Replied(S, "registration-required")}
        ELSE UNION {
            IF Len(organizations) = 0 THEN {Replied(S, "no-organization")}
            ELSE Roster(S, organizations)
            : organizations \in getUserOrganizations(M, user) }

slackVacation(S) == {Replied(S, "vacation-coming-soon")}

\* app.command(name, ...): ack(), the handler's body, respond(...)
SlackCommand(name, slackUserId, text) ==
    /\ NoCallInFlight
    /\ \E h \in CASE name = "checkin" -> slackCheckin(users, memberships, sessions, slackUserId, text, now)
                 [] name = "checkout" -> slackCheckout(users, memberships, sessions, slackUserId, text, now)
                 [] name = "status" -> slackStatus(users, memberships, sessions, slackUserId)
                 [] name = "vacation" -> slackVacation(sessions) :
        /\ Len(h.sessions) <= MaxSessions
        /\ sessions' = h.sessions
        /\ last' = Record([NoLast EXCEPT !.op = name, !.via = "slack",
                        !.platformId = slackUserId, !.userId = h.userId,
                        !.organizationId = h.organizationId, !.note = h.note,
                        !.outcome = h.outcome, !.reply = h.reply,
                        !.engine = h.engine, !.session = h.session,
                        !.list = h.list, !.orgs = h.orgs, !.text = text,
                        !.shown = h.shown, !.ack = TRUE])
    /\ UNCHANGED <<users, orgs, memberships, now, calls>>

-----------------------------------------------------------------------------
(* ChatworkWebhookHandler *)

WebhookToken == <<"secret">>

NoCommand == [name |-> "none", param |-> UNDEFINED]

\* the text after the command token, with the blanks \s* takes removed
AfterCommand(body) == TrimStart(Tail(body))

\* /^\/name\s*(.*)?$/ : the body starts with the token; `.` matches no line
\* break and $ only the end of the body, so what follows the blanks must be on
\* one line
MatchesWithParam(body, token) ==
    /\ body # <<>> /\ Head(body) = token
    /\ \A i \in DOMAIN AfterCommand(body) : AfterCommand(body)[i] # Nl

\* match[1]?.trim(): the group takes no part in the match when nothing
\* follows the blanks, and match[1] is then undefined
ParamOf(body) ==
    IF AfterCommand(body) = <<>> THEN UNDEFINED ELSE Trim(AfterCommand(body))

parseCommand(body) ==
    IF MatchesWithParam(body, "/checkin") THEN [name |-> "checkin", param |-> ParamOf(body)]
    ELSE IF MatchesWithParam(body, "/checkout") THEN [name |-> "checkout", param |-> ParamOf(body)]
    ELSE IF body = <<"/status">> THEN [name |-> "status", param |-> UNDEFINED]
    ELSE IF MatchesWithParam(body, "/vacation") THEN [name |-> "vacation", param |-> ParamOf(body)]
    ELSE NoCommand

handleCheckinCommand(U, M, S, chatworkUserId, note, t) ==
    LET user == findByChatworkUserId(U, chatworkUserId)
    IN  IF user = 0 THEN {Replied(S, "registration-required")}
        ELSE UNION {
            IF Len(organizations) = 0 THEN {Replied(S, "no-organization")}
            ELSE {Attended(r, "checked-in", user, organizations, note)
                  : r \in checkin(S, user, organization(organizations), note, t)}
            : organizations \in getUserOrganizations(M, user) }

handleCheckoutCommand(U, M, S, chatworkUserId, note, t) ==
    LET user == findByChatworkUserId(U, chatworkUserId)
    IN  IF user = 0 THEN {Replied(S, "registration-required")}
        ELSE UNION {
            IF Len(organizations) = 0 THEN {Replied(S, "no-organization")}
            ELSE {Attended(r, "checked-out", user, organizations, note)
                  : r \in checkout(S, user, organization(organizations), note, t)}
            : organizations \in getUserOrganizations(M, user) }

handleStatusCommand(U, M, S, chatworkUserId) ==
    LET user == findByChatworkUserId(U, chatworkUserId)
    IN  IF user = 0 THEN {Replied(S, "registration-required")}
        ELSE UNION {
            IF Len(organizations) = 0 THEN {Replied(S, "no-organization")}
            ELSE Roster(S, organizations)
            : organizations \in getUserOrganizations(M, user) }

handleVacationCommand(S) == {Replied(S, "vacation-coming-soon")}

\* an error left a command's handler uncaught, for handleWebhook's own catch
Thrown(h) == h.outcome \notin {"ok", "none"} /\ h.reply = "none"

\* handleWebhook: token check, event type, parseCommand, the command's handler,
\* sendChatworkMessage, res.status(200); res.status(500) from its catch clause
ChatworkWebhook(token, eventType, accountId, body) ==
    /\ NoCallInFlight
    /\ LET command == parseCommand(body)
           base == [NoLast EXCEPT !.via = "chatwork", !.platformId = accountId,
                                  !.body = body]
       IN  IF token # WebhookToken
           THEN /\ last' = Record([base EXCEPT !.op = "rejected", !.http = 401])
                /\ sessions' = sessions
           ELSE IF eventType # "message_created" \/ command = NoCommand
           THEN /\ last' = Record([base EXCEPT !.op = "ignored", !.http = 200])
                /\ sessions' = sessions
           ELSE \E h \in CASE command.name = "checkin" -> handleCheckinCommand(users, memberships, sessions, accountId, command.param, now)
                          [] command.name = "checkout" -> handleCheckoutCommand(users, memberships, sessions, accountId, command.param, now)
                          [] command.name = "status" -> handleStatusCommand(users, memberships, sessions, accountId)
                          [] command.name = "vacation" -> handleVacationCommand(sessions) :
                /\ Len(h.sessions) <= MaxSessions
                /\ sessions' = h.sessions
                /\ last' = Record([base EXCEPT !.op = command.name,
                                !.command = command.name,
                                !.param = command.param,
                                !.userId = h.userId,
                                !.organizationId = h.organizationId,
                                !.note = h.note, !.outcome = h.outcome,
                                !.reply = h.reply, !.engine = h.engine,
                                !.session = h.session, !.list = h.list,
                                !.orgs = h.orgs, !.shown = h.shown,
                                !.http = IF Thrown(h) THEN 500 ELSE 200])
    /\ UNCHANGED <<users, orgs, memberships, now, calls>>

-----------------------------------------------------------------------------
(* The two adapters over one database, one request at a time *)

AdapterLinks == {<<<<"S1">>, <<"C1">>>>, <<<<"S2">>, <<"C2">>>>}
AdapterSlugs == {<<"acme">>}
AdapterRoles == {"MEMBER"}
AdapterSlackIds == {<<"S1">>, <<"S2">>}
AdapterChatworkIds == {<<"C1">>, <<"C2">>}
AdapterTexts == {EmptyText}
AdapterBodies ==
    { <<"/checkin">>, <<"/checkout">>, <<"/status">>, <<"/vacation">>, <<"hello">> }

\* the Slack commands sent: <<name, user id, text>>
AdapterSlackCommands ==
    ({"checkin", "checkout"} \X AdapterSlackIds \X AdapterTexts)
    \cup ({"status", "vacation"} \X AdapterSlackIds \X {EmptyText})

\* the webhook calls made: <<token, event type, account id, body>>
AdapterWebhooks ==
    ({WebhookToken} \X {"message_created"} \X AdapterChatworkIds \X AdapterBodies)
    \cup {<<<<"wrong">>, "message_created", <<"C1">>, <<"/checkin">>>>,
          <<WebhookToken, "mention_to_me", <<"C1">>, <<"/checkin">>>>}

AdapterNext ==
    \/ \E l \in AdapterLinks : CreateUser(l[1], l[2])
    \/ \E g \in AdapterSlugs, u \in 1..MaxUsers : CreateOrganization(g, u)
    \/ \E u \in 1..MaxUsers, o \in 1..MaxOrgs, r \in AdapterRoles : InviteUser(u, o, r)
    \/ \E m \in 1..(MaxUsers * MaxOrgs) : AcceptInvitation(m)
    \/ \E u \in 1..MaxUsers, o \in 1..MaxOrgs : RemoveUser(o, u)
    \/ \E c \in AdapterSlackCommands : SlackCommand(c[1], c[2], c[3])
    \/ \E w \in AdapterWebhooks : ChatworkWebhook(w[1], w[2], w[3], w[4])

AdapterSpec == Init /\ [][AdapterNext]_vars

-----------------------------------------------------------------------------
(* The adapters with a user in several organizations *)

OrgLinks == {<<<<"S1">>, <<"C1">>>>}
OrgSlugs == {<<"acme">>, <<"beta">>}

\* the Slack commands sent: <<name, user id, text>>
OrgSlackCommands ==
    {"checkin", "checkout", "status"} \X {<<"S1">>} \X {EmptyText}

\* the webhook calls made: <<token, event type, account id, body>>
OrgWebhooks ==
    {WebhookToken} \X {"message_created"} \X {<<"C1">>}
        \X {<<"/checkin">>, <<"/checkout">>, <<"/status">>}

OrgNext ==
    \/ \E l \in OrgLinks : CreateUser(l[1], l[2])
    \/ \E g \in OrgSlugs, u \in 1..MaxUsers : CreateOrganization(g, u)
    \/ \E m \in 1..MaxOrgs : AcceptInvitation(m)
    \/ \E u \in 1..MaxUsers, o \in 1..MaxOrgs : RemoveUser(o, u)
    \/ \E c \in OrgSlackCommands : SlackCommand(c[1], c[2], c[3])
    \/ \E w \in OrgWebhooks : ChatworkWebhook(w[1], w[2], w[3], w[4])

OrgSpec == Init /\ [][OrgNext]_vars

-----------------------------------------------------------------------------
(* Organizations and memberships on their own *)

\* a direct call of getUserOrganizations
UserOrganizations(userId) ==
    /\ NoCallInFlight
    /\ userId \in DOMAIN users
    /\ \E l \in getUserOrganizations(memberships, userId) :
        last' = Record([NoLast EXCEPT !.op = "getUserOrganizations", !.via = "engine",
                        !.userId = userId, !.outcome = "ok", !.orgs = l])
    /\ UNCHANGED <<users, orgs, memberships, sessions, now, calls>>

MemberLinks == {<<<<"S1">>, <<"C1">>>>, <<<<"S2">>, <<"C2">>>>}
MemberSlugs == {<<"acme">>, <<"beta">>}
MemberRoles == {"MEMBER"}

MemberNext ==
    \/ \E l \in MemberLinks : CreateUser(l[1], l[2])
    \/ \E g \in MemberSlugs, u \in 1..MaxUsers : CreateOrganization(g, u)
    \/ \E u \in 1..MaxUsers, o \in 1..MaxOrgs, r \in MemberRoles : InviteUser(u, o, r)
    \/ \E m \in 1..(MaxUsers * MaxOrgs) : AcceptInvitation(m)
    \/ \E u \in 1..MaxUsers, o \in 1..MaxOrgs : RemoveUser(o, u)
    \/ \E u \in 1..MaxUsers : UserOrganizations(u)

MemberSpec == Init /\ [][MemberNext]_vars

-----------------------------------------------------------------------------
(* The engine with two users and two organizations, and its list queries *)

\* a direct call of getAllActiveSessions
AllActiveSessions(organizationId) ==
    /\ NoCallInFlight
    /\ organizationId \in DOMAIN orgs
    /\ \E l \in getAllActiveSessions(sessions, organizationId) :
        last' = Record([NoLast EXCEPT !.op = "allActiveSessions", !.via = "engine",
                        !.organizationId = organizationId, !.outcome = "ok",
                        !.engine = TRUE, !.list = l])
    /\ UNCHANGED <<users, orgs, memberships, sessions, now, calls>>

\* a direct call of getSessionsByDateRange
SessionsInRange(userId, organizationId, startDate, endDate) ==
    /\ NoCallInFlight
    /\ userId \in DOMAIN users /\ organizationId \in DOMAIN orgs
    /\ \E l \in getSessionsByDateRange(sessions, userId, organizationId, startDate, endDate) :
        last' = Record([NoLast EXCEPT !.op = "sessionsInRange", !.via = "engine",
                        !.userId = userId, !.organizationId = organizationId,
                        !.outcome = "ok", !.engine = TRUE,
                        !.from = startDate, !.to = endDate, !.list = l])
    /\ UNCHANGED <<users, orgs, memberships, sessions, now, calls>>

PairLinks == {<<<<"S1">>, <<"C1">>>>, <<<<"S2">>, <<"C2">>>>}
PairSlugs == {<<"acme">>, <<"beta">>}
PairCreators == {1}
PairNotes == {UNDEFINED}

\* the status requests made: Slack <<name, user id, text>>, Chatwork <<token,
\* event type, account id, body>>
PairSlackCommands == {<<"status", <<"S1">>, EmptyText>>}
PairWebhooks == {<<WebhookToken, "message_created", <<"C1">>, <<"/status">>>>}

PairNext ==
    \/ \E l \in PairLinks : CreateUser(l[1], l[2])
    \/ \E g \in PairSlugs, u \in PairCreators : CreateOrganization(g, u)
    \/ \E u \in 1..MaxUsers, o \in 1..MaxOrgs, n \in PairNotes : Checkin(u, o, n)
    \/ \E u \in 1..MaxUsers, o \in 1..MaxOrgs, n \in PairNotes : Checkout(u, o, n)
    \/ \E o \in 1..MaxOrgs : AllActiveSessions(o)
    \/ \E c \in PairSlackCommands : SlackCommand(c[1], c[2], c[3])
    \/ \E w \in PairWebhooks : ChatworkWebhook(w[1], w[2], w[3], w[4])

PairSpec == Init /\ [][PairNext]_vars

RangeLinks == {<<<<"S1">>, <<"C1">>>>, <<<<"S2">>, <<"C2">>>>}
RangeSlugs == {<<"acme">>, <<"beta">>}
RangeCreators == {1}
RangeNotes == {UNDEFINED}
RangeClock == {ClockInstants[i] : i \in 1..2}

\* the queries made: <<userId, organizationId, startDate, endDate>>
RangeQueries == {1} \X {1} \X RangeClock \X RangeClock

RangeNext ==
    \/ \E l \in RangeLinks : CreateUser(l[1], l[2])
    \/ \E g \in RangeSlugs, u \in RangeCreators : CreateOrganization(g, u)
    \/ \E u \in 1..MaxUsers, o \in 1..MaxOrgs, n \in RangeNotes : Checkin(u, o, n)
    \/ \E u \in 1..MaxUsers, o \in 1..MaxOrgs, n \in RangeNotes : Checkout(u, o, n)
    \/ \E q \in RangeQueries : SessionsInRange(q[1], q[2], q[3], q[4])
    \/ Tick(RangeClock)

RangeSpec == Init /\ [][RangeNext]_vars

-----------------------------------------------------------------------------
(* Adapter requests handled concurrently over a store whose calls may fail.  *)
(* A request suspends at each await of its handler: the user lookup, the     *)
(* organization lookup, the engine's query and the engine's create / update. *)

\* the handler is entered: ack() (Slack) or the token check and parseCommand
\* (Chatwork) are done and the user lookup is awaited
RequestBegin(c, via, name, platformId) ==
    /\ calls[c].pc = "idle"
    /\ calls' = [calls EXCEPT ![c] =
            [IdleCall EXCEPT !.pc = "user", !.op = name, !.via = via,
                             !.platformId = platformId]]
    /\ UNCHANGED <<users, orgs, memberships, sessions, now, last>>

\* findBySlackUserId / findByChatworkUserId answers
RequestUser(c) ==
    /\ calls[c].pc = "user"
    /\ LET user == IF calls[c].via = "slack"
                   THEN findBySlackUserId(users, calls[c].platformId)
                   ELSE findByChatworkUserId(users, calls[c].platformId)
       IN  calls' = [calls EXCEPT ![c] =
              IF user = 0
              THEN [@ EXCEPT !.pc = "done", !.reply = "registration-required"]
              ELSE [@ EXCEPT !.pc = "orgs", !.userId = user]]
    /\ UNCHANGED <<users, orgs, memberships, sessions, now, last>>

\* getUserOrganizations answers; the engine is called for organizations[0]
RequestOrganizations(c) ==
    /\ calls[c].pc = "orgs"
    /\ \E organizations \in getUserOrganizations(memberships, calls[c].userId) :
        calls' = [calls EXCEPT ![c] =
              IF Len(organizations) = 0
              THEN [@ EXCEPT !.pc = "done", !.reply = "no-organization"]
              ELSE [@ EXCEPT !.pc = "read",
                             !.organizationId = organization(organizations)]]
    /\ UNCHANGED <<users, orgs, memberships, sessions, now, last>>

\* the awaited store call rejects: nothing is written, and the error is thrown
\* into the handler's try block
StoreFails(c) ==
    /\ calls[c].pc \in {"user", "orgs", "read", "write"}
    /\ calls' = [calls EXCEPT ![c] =
            [@ EXCEPT !.pc = "done", !.outcome = "StoreUnavailable"]]
    /\ UNCHANGED <<users, orgs, memberships, sessions, now, last>>

\* respond(...) / sendChatworkMessage(...) and res.status(200): the early
\* reply, the confirmation, or the catch clause's error text
RequestRespond(c) ==
    /\ calls[c].pc = "done" /\ calls[c].via # "none"
    /\ LET r == calls[c]
           h == Attended([sessions |-> sessions, outcome |-> r.outcome,
                          session |-> r.active],
                         IF r.op = "checkin" THEN "checked-in" ELSE "checked-out",
                         r.userId, <<r.organizationId>>, r.note)
       IN  last' = Record([NoLast EXCEPT
                        !.op = r.op, !.via = r.via, !.platformId = r.platformId,
                        !.userId = r.userId, !.organizationId = r.organizationId,
                        !.outcome = r.outcome,
                        !.reply = IF r.reply # "none" THEN r.reply ELSE h.reply,
                        !.shown = IF r.reply # "none" THEN <<>> ELSE h.shown,
                        !.engine = r.organizationId # 0,
                        !.session = IF r.outcome = "ok" THEN r.active ELSE 0,
                        !.ack = (r.via = "slack"),
                        !.http = IF r.via = "chatwork" THEN 200 ELSE 0])
    /\ calls' = [calls EXCEPT ![c] = IdleCall]
    /\ UNCHANGED <<users, orgs, memberships, sessions, now>>

FailLinks == {<<<<"S1">>, <<"C1">>>>}
FailSlugs == {<<"acme">>}

\* the requests made: <<adapter, command, platform user id>>
FailRequests ==
    { <<"slack", "checkin", <<"S1">>>>, <<"slack", "checkout", <<"S1">>>>,
      <<"chatwork", "checkin", <<"C1">>>> }

FailNext ==
    \/ \E l \in FailLinks : CreateUser(l[1], l[2])
    \/ \E g \in FailSlugs, u \in 1..MaxUsers : CreateOrganization(g, u)
    \/ \E c \in 1..MaxCalls, q \in FailRequests : RequestBegin(c, q[1], q[2], q[3])
    \/ \E c \in 1..MaxCalls : RequestUser(c)
    \/ \E c \in 1..MaxCalls : RequestOrganizations(c)
    \/ \E c \in 1..MaxCalls : CallRead(c)
    \/ \E c \in 1..MaxCalls : CallWrite(c)
    \/ \E c \in 1..MaxCalls : StoreFails(c)
    \/ \E c \in 1..MaxCalls : RequestRespond(c)

FailSpec == Init /\ [][FailNext]_vars

-----------------------------------------------------------------------------
(* One user on both chat platforms, with the clock running *)

ChatLinks == {<<<<"S1">>, <<"C1">>>>}
ChatSlugs == {<<"acme">>}
ChatClock == {ClockInstants[i] : i \in 3..4}

\* the Slack commands sent: <<name, user id, text>>
ChatSlackCommands ==
    { <<"checkin", <<"S1">>, <<"office">>>>, <<"checkout", <<"S1">>, EmptyText>> }

\* the webhook calls made: <<token, event type, account id, body>>
ChatWebhooks ==
    {WebhookToken} \X {"message_created"} \X {<<"C1">>}
        \X {<<"/checkin", Sp, "home">>, <<"/checkout">>}

ChatNext ==
    \/ \E l \in ChatLinks : CreateUser(l[1], l[2])
    \/ \E g \in ChatSlugs, u \in 1..MaxUsers : CreateOrganization(g, u)
    \/ \E u \in 1..MaxUsers, o \in 1..MaxOrgs : RemoveUser(o, u)
    \/ \E c \in ChatSlackCommands : SlackCommand(c[1], c[2], c[3])
    \/ \E w \in ChatWebhooks : ChatworkWebhook(w[1], w[2], w[3], w[4])
    \/ Tick(ChatClock)

ChatSpec == Init /\ [][ChatNext]_vars

-----------------------------------------------------------------------------
(* The handlers the bootstrap file registers on the Slack app *)

\* slackApp.command('/name', ...): ack(), then respond(...) with a fixed
\* text; the handler reads no user and calls no service
bootstrapReply(name) ==
    CASE name = "checkin" -> "checked-in"
      [] name = "checkout" -> "checked-out"
      [] name = "status" -> "status-in-progress"
      [] name = "vacation" -> "vacation-received"

BootstrapCommand(name, slackUserId) ==
    /\ NoCallInFlight
    /\ last' = Record([NoLast EXCEPT !.op = name, !.via = "slack",
                    !.platformId = slackUserId, !.reply = bootstrapReply(name),
                    !.text = EmptyText, !.ack = TRUE])
    /\ UNCHANGED <<users, orgs, memberships, sessions, now, calls>>

BootLinks == {<<<<"S1">>, <<"C1">>>>}
BootSlugs == {<<"acme">>}
BootClock == {ClockInstants[i] : i \in 3..4}
BootNames == {"checkin", "checkout", "status", "vacation"}

\* the webhook calls made: <<token, event type, account id, body>>
BootWebhooks ==
    {WebhookToken} \X {"message_created"} \X {<<"C1">>} \X {<<"/checkin">>, <<"/checkout">>}

BootNext ==
    \/ \E l \in BootLinks : CreateUser(l[1], l[2])
    \/ \E g \in BootSlugs, u \in 1..MaxUsers : CreateOrganization(g, u)
    \/ \E n \in BootNames : BootstrapCommand(n, <<"S1">>)
    \/ \E n \in BootNames : SlackCommand(n, <<"S1">>, EmptyText)
    \/ \E w \in BootWebhooks : ChatworkWebhook(w[1], w[2], w[3], w[4])
    \/ Tick(BootClock)

BootSpec == Init /\ [][BootNext]_vars

-----------------------------------------------------------------------------
(* The same note texts sent through both chat platforms *)

NoteLinks == {<<<<"S1">>, <<"C1">>>>}
NoteSlugs == {<<"acme">>}

\* what follows the command: nothing, a blank, a word, a word between blanks
NoteTexts == {EmptyText, <<Sp>>, <<"home">>, <<Sp, "home", Sp>>}

\* the Slack commands sent: <<name, user id, text>>
NoteSlackCommands == {"checkin", "checkout"} \X {<<"S1">>} \X NoteTexts

\* the webhook calls made: <<token, event type, account id, body>>; the blank
\* that separates a command from its text is part of the body
NoteWebhooks ==
    {WebhookToken} \X {"message_created"} \X {<<"C1">>}
        \X { <<c>> \o (IF t = EmptyText \/ IsBlank(Head(t)) THEN t ELSE <<Sp>> \o t)
              : c \in {"/checkin", "/checkout"}, t \in NoteTexts }

NoteNext ==
    \/ \E l \in NoteLinks : CreateUser(l[1], l[2])
    \/ \E g \in NoteSlugs, u \in 1..MaxUsers : CreateOrganization(g, u)
    \/ \E c \in NoteSlackCommands : SlackCommand(c[1], c[2], c[3])
    \/ \E w \in NoteWebhooks : ChatworkWebhook(w[1], w[2], w[3], w[4])

NoteSpec == Init /\ [][NoteNext]_vars

-----------------------------------------------------------------------------
(* parseCommand on its own *)

\* a call of parseCommand
Parse(body) ==
    /\ NoCallInFlight
    /\ last' = Record([NoLast EXCEPT !.op = "parse", !.via = "chatwork",
                       !.body = body, !.command = parseCommand(body).name,
                       !.param = parseCommand(body).param])
    /\ UNCHANGED <<users, orgs, memberships, sessions, now, calls>>

ParseTokens == {"/checkin", "/checkout", "/status", "/vacation", "home", Sp, Nl}

\* every body of up to BodyMaxLen tokens, and the examples of the documentation
ParseBodies ==
    UNION {[1..n -> ParseTokens] : n \in 0..BodyMaxLen}
    \cup { <<"/checkin", Sp, "working", Sp, "from", Sp, "home">>, <<"hello">> }

ParseNext == \E body \in ParseBodies : Parse(body)

ParseSpec == Init /\ [][ParseNext]_vars

-----------------------------------------------------------------------------
(* The Chatwork webhook with bodies that are and are not commands *)

WebhookLinks == {<<<<"S1">>, <<"C1">>>>}
WebhookSlugs == {<<"acme">>}
WebhookBodies ==
    { <<"hello">>, <<>>, <<Sp, "/checkin">>, <<"hello", Sp, "/checkin">>,
      <<"hello", Nl, "/checkout">>, <<"/status", Sp>>,
      <<"/checkin">>, <<"/checkin", "office">>, <<"/checkin", Sp, "office">>,
      <<"/checkout">>, <<"/checkout", "home">>, <<"/status">>, <<"/vacation">> }

\* the webhook calls made: <<token, event type, account id, body>>
WebhookCalls ==
    {WebhookToken} \X {"message_created"} \X {<<"C1">>, <<"C2">>} \X WebhookBodies

WebhookNext ==
    \/ \E l \in WebhookLinks : CreateUser(l[1], l[2])
    \/ \E g \in WebhookSlugs, u \in 1..MaxUsers : CreateOrganization(g, u)
    \/ \E w \in WebhookCalls : ChatworkWebhook(w[1], w[2], w[3], w[4])

WebhookSpec == Init /\ [][WebhookNext]_vars

-----------------------------------------------------------------------------
(* Properties of the engine, one request at a time (EngineSpec) *)

\* the sessions of a pair whose end timestamp is null
OpenOf(S, u, o) ==
    {i \in DOMAIN S : S[i].userId = u /\ S[i].organizationId = o /\ S[i].checkoutAt = NullDate}

\* the step completes a request
RequestStep == last'.seq # last.seq

\* the step completes a direct engine call `name`
EngineCall(name) == RequestStep /\ last'.via = "engine" /\ last'.op = name

\* every row but row i is what it was
OthersSame(i) ==
    /\ Len(sessions') = Len(sessions)
    /\ \A j \in DOMAIN sessions : j # i => sessions'[j] = sessions[j]

\* C2: a checkin issued when the pair has no open session adds exactly one new
\* session, with start = the current time, a null end and the given note (none
\* when no note was given), and activeSession afterwards returns that session.
CheckinCreatesOpenSession ==
    [][ (EngineCall("checkin")
         /\ OpenOf(sessions, last'.userId, last'.organizationId) = {})
        => /\ last'.outcome = "ok"
           /\ Len(sessions') = Len(sessions) + 1
           /\ SubSeq(sessions', 1, Len(sessions)) = sessions
           /\ last'.session = Len(sessions')
           /\ sessions'[Len(sessions')] =
                 [userId |-> last'.userId, organizationId |-> last'.organizationId,
                  checkinAt |-> now, checkoutAt |-> NullDate,
                  note |-> IF last'.note = UNDEFINED THEN NULL ELSE last'.note]
           /\ getActiveSession(sessions', last'.userId, last'.organizationId)
                 = {Len(sessions')} ]_vars

\* a checkin with note "office" has just created the open session it returned
CheckinCreatedWitness ==
    /\ last.op = "checkin" /\ last.via = "engine" /\ last.outcome = "ok"
    /\ last.note = <<"office">>
    /\ last.session \in DOMAIN sessions
    /\ sessions[last.session].note = <<"office">>
    /\ sessions[last.session].checkoutAt = NullDate
    /\ Len(sessions) = 2

\* C3: with requests one at a time, a checkin issued while the pair has an open
\* session fails with AlreadyCheckedIn and leaves the session store unchanged.
SecondCheckinFails ==
    [][ (EngineCall("checkin")
         /\ OpenOf(sessions, last'.userId, last'.organizationId) # {})
        => /\ last'.outcome = "AlreadyCheckedIn"
           /\ last'.session = 0
           /\ sessions' = sessions ]_vars

\* a checkin has just been refused while the pair's session is open
SecondCheckinWitness ==
    /\ last.op = "checkin" /\ last.via = "engine"
    /\ last.outcome = "AlreadyCheckedIn"
    /\ OpenOf(sessions, last.userId, last.organizationId) # {}

\* C4: a checkout issued while the pair has an open session sets that session's
\* end to the current time, with end >= start, returns the now-closed session,
\* and activeSession afterwards returns none.
CheckoutClosesSession ==
    [][ (EngineCall("checkout")
         /\ OpenOf(sessions, last'.userId, last'.organizationId) # {})
        => /\ last'.outcome = "ok"
           /\ last'.session \in OpenOf(sessions, last'.userId, last'.organizationId)
           /\ sessions'[last'.session].checkoutAt = now
           /\ sessions'[last'.session].checkinAt = sessions[last'.session].checkinAt
           /\ DateLeq(sessions'[last'.session].checkinAt,
                      sessions'[last'.session].checkoutAt)
           /\ OthersSame(last'.session)
           /\ getActiveSession(sessions', last'.userId, last'.organizationId) = {0} ]_vars

\* a checkout has just closed a session some time after it was opened
CheckoutClosedWitness ==
    /\ last.op = "checkout" /\ last.via = "engine" /\ last.outcome = "ok"
    /\ last.session \in DOMAIN sessions
    /\ sessions[last.session].checkoutAt = now
    /\ sessions[last.session].checkinAt # now
    /\ OpenOf(sessions, last.userId, last.organizationId) = {}

\* C5: a checkout issued when the pair has no open session fails with
\* NotCheckedIn and changes no session; and of two checkouts for a pair issued
\* in a row, the second fails.
CheckoutWithoutCheckinFails ==
    [][ /\ (EngineCall("checkout")
             /\ OpenOf(sessions, last'.userId, last'.organizationId) = {})
            => (last'.outcome = "NotCheckedIn" /\ last'.session = 0
                /\ sessions' = sessions)
        /\ (EngineCall("checkout")
             /\ last.op = "checkout"
             /\ last.userId = last'.userId
             /\ last.organizationId = last'.organizationId)
            => (last'.outcome = "NotCheckedIn" /\ sessions' = sessions) ]_vars

\* a checkout has just failed right after a checkout that closed the session
SecondCheckoutWitness ==
    /\ last.op = "checkout" /\ last.via = "engine"
    /\ last.outcome = "NotCheckedIn"
    /\ \E i \in DOMAIN sessions :
          /\ sessions[i].userId = last.userId
          /\ sessions[i].organizationId = last.organizationId
          /\ sessions[i].checkoutAt # NullDate
    /\ OpenOf(sessions, last.userId, last.organizationId) = {}

\* C6: on a successful checkout the closed session's note is the note supplied
\* to checkout whenever one was supplied, and the note stored at checkin when
\* none was; its start is the checkin time and its end the checkout time.
CheckoutNoteAsSupplied ==
    [][ (EngineCall("checkout") /\ last'.outcome = "ok")
        => /\ last'.session \in DOMAIN sessions
           /\ sessions'[last'.session].note =
                 (IF last'.note # UNDEFINED THEN last'.note
                  ELSE sessions[last'.session].note)
           /\ sessions'[last'.session].checkinAt = sessions[last'.session].checkinAt
           /\ sessions'[last'.session].checkoutAt = now ]_vars

-----------------------------------------------------------------------------
(* Properties of concurrently handled engine calls (Spec) *)

\* C1: under any interleaving of checkin and checkout requests, each (user,
\* organization) pair has at most one session whose end timestamp is null.
AtMostOneOpenSession ==
    \A u \in DOMAIN users, o \in DOMAIN orgs : Cardinality(OpenOf(sessions, u, o)) <= 1

\* C7: a session is mutated once, by the checkout that closes it, and never
\* deleted: once its end timestamp is set, the row never changes again.
ClosedSessionNeverChanges ==
    [][ \A i \in DOMAIN sessions :
          sessions[i].checkoutAt # NullDate
          => (i \in DOMAIN sessions' /\ sessions'[i] = sessions[i]) ]_vars

-----------------------------------------------------------------------------
(* Properties of the monthly report (ReportSpec) *)

\* the instant t lies in the calendar month (year, month): on or after the
\* first day of the month and before the first day of the next
InMonth(t, year, month) ==
    /\ MakeDate(year, month - 1, 1, 0, 0, 0, 0)[1] <= t[1]
    /\ t[1] < MakeDate(year, month, 1, 0, 0, 0, 0)[1]

\* the sessions of the reported pair
ReportedPair(i) ==
    /\ sessions[i].userId = last.userId
    /\ sessions[i].organizationId = last.organizationId

RECURSIVE SumHours(_)
SumHours(ids) ==
    IF ids = {} THEN <<0, 0>>
    ELSE LET i == CHOOSE j \in ids : TRUE
         IN  AddHours(Hours(DateDiff(sessions[i].checkoutAt, sessions[i].checkinAt)),
                      SumHours(ids \ {i}))

\* C8: the report's totalHours is the sum of (end - start) in hours over exactly
\* the pair's sessions whose start falls in the month and whose end is set; an
\* open session in the month adds nothing but is in the returned list.
MonthlyTotalIsSumOfClosed ==
    last.op = "report"
    => /\ last.total =
            SumHours({i \in DOMAIN sessions :
                        /\ ReportedPair(i)
                        /\ InMonth(sessions[i].checkinAt, last.year, last.month)
                        /\ sessions[i].checkoutAt # NullDate})
       /\ \A i \in DOMAIN sessions :
            (/\ ReportedPair(i)
             /\ InMonth(sessions[i].checkinAt, last.year, last.month)
             /\ sessions[i].checkoutAt = NullDate)
            => i \in Range(last.list)

\* C9: the report's range runs from the first instant of day 1 through the last
\* instant of the month's last day: a session of the pair is in the report
\* exactly when its start is at some instant of the month.
MonthRangeIsWholeMonth ==
    last.op = "report"
    => \A i \in DOMAIN sessions :
         ReportedPair(i)
         => (i \in Range(last.list)
             <=> InMonth(sessions[i].checkinAt, last.year, last.month))

-----------------------------------------------------------------------------
(* Properties of the adapters (AdapterSpec) *)

\* the users the platform user id of the request is linked to
ResolvedUsers(via, platformId) ==
    {i \in DOMAIN users :
        \/ (via = "slack" /\ users[i].slackUserId = platformId)
        \/ (via = "chatwork" /\ users[i].chatworkUserId = platformId)}

HasActiveMembership(u) ==
    \E m \in DOMAIN memberships :
        memberships[m].userId = u /\ memberships[m].status = "ACTIVE"

\* the step completes a checkin, checkout or status command of an adapter
AttendanceCommand ==
    /\ RequestStep
    /\ last'.via \in {"slack", "chatwork"}
    /\ last'.op \in {"checkin", "checkout", "status"}

\* C10: for checkin, checkout and status on either adapter, a platform user id
\* that resolves to no user gets the registration-required reply, and a user with
\* no ACTIVE membership gets the no-organization reply; in both cases the engine
\* is not invoked and no session is created or modified.
UnprovisionedGetsGuidance ==
    [][ AttendanceCommand
        => /\ ResolvedUsers(last'.via, last'.platformId) = {}
              => (/\ last'.reply = "registration-required"
                  /\ ~last'.engine
                  /\ sessions' = sessions)
           /\ (/\ ResolvedUsers(last'.via, last'.platformId) # {}
               /\ \A u \in ResolvedUsers(last'.via, last'.platformId) :
                     ~HasActiveMembership(u))
              => (/\ last'.reply = "no-organization"
                  /\ ~last'.engine
                  /\ sessions' = sessions) ]_vars

\* a user who checked in and was then removed from the organization has just
\* been told, on checkout through Chatwork, that they have no organization
UnprovisionedWitness ==
    /\ last.via = "chatwork" /\ last.op = "checkout"
    /\ last.reply = "no-organization" /\ ~last.engine
    /\ \E u \in ResolvedUsers("chatwork", last.platformId) :
          /\ ~HasActiveMembership(u)
          /\ \E o \in DOMAIN orgs : OpenOf(sessions, u, o) # {}

\* the step completes an adapter's checkin or checkout that reached the engine
\* and that the engine has to refuse
RefusedByEngine ==
    /\ RequestStep
    /\ last'.via \in {"slack", "chatwork"}
    /\ last'.engine
    /\ \/ (last'.op = "checkin"
            /\ OpenOf(sessions, last'.userId, last'.organizationId) # {})
       \/ (last'.op = "checkout"
            /\ OpenOf(sessions, last'.userId, last'.organizationId) = {})

\* C11: when the engine's checkin or checkout fails with AlreadyCheckedIn or
\* NotCheckedIn, the adapter replies with the error text and the transport
\* exchange succeeds: the Slack command is acknowledged, the Chatwork webhook
\* answers 200.
EngineErrorIsReplied ==
    [][ RefusedByEngine
        => /\ last'.outcome =
                 (IF last'.op = "checkin" THEN "AlreadyCheckedIn" ELSE "NotCheckedIn")
           /\ last'.reply = "error"
           /\ (last'.via = "slack" => last'.ack)
           /\ (last'.via = "chatwork" => last'.http = 200)
           /\ sessions' = sessions ]_vars

\* a second /checkin sent through Chatwork has just been answered with the
\* error text and HTTP 200
EngineErrorWitness ==
    /\ last.via = "chatwork" /\ last.op = "checkin"
    /\ last.outcome = "AlreadyCheckedIn"
    /\ last.reply = "error" /\ last.http = 200
    /\ OpenOf(sessions, last.userId, last.organizationId) # {}

-----------------------------------------------------------------------------
(* Properties of the adapters for a user of several organizations (OrgSpec) *)

\* the organizations in which user u's membership is ACTIVE
ActiveOrgsOf(u) ==
    {memberships[m].organizationId :
        m \in {k \in DOMAIN memberships : /\ memberships[k].userId = u
                                          /\ memberships[k].status = "ACTIVE"}}

\* the rows of the session table the step created or changed
Touched == {i \in DOMAIN sessions' : i \notin DOMAIN sessions \/ sessions'[i] # sessions[i]}

\* C12: a checkin, checkout or status sent through an adapter by a user with
\* ACTIVE memberships operates on the first organization of the sequence
\* getUserOrganizations returned, and creates, closes or lists no session of
\* any other organization.
FirstOrganizationIsTarget ==
    [][ (AttendanceCommand /\ last'.engine)
        => /\ Range(last'.orgs) =
                 UNION {ActiveOrgsOf(u) : u \in ResolvedUsers(last'.via, last'.platformId)}
           /\ last'.organizationId = last'.orgs[1]
           /\ Len(sessions') >= Len(sessions)
           /\ \A i \in Touched : sessions'[i].organizationId = last'.orgs[1]
           /\ \A i \in Range(last'.list) : sessions[i].organizationId = last'.orgs[1] ]_vars

\* a user of two organizations, with a session in the one that came second,
\* has just checked in to the one that came first
FirstOrganizationWitness ==
    /\ last.via = "slack" /\ last.op = "checkin" /\ last.outcome = "ok"
    /\ Len(last.orgs) = 2
    /\ last.session \in DOMAIN sessions
    /\ sessions[last.session].organizationId = last.orgs[1]
    /\ \E i \in DOMAIN sessions : sessions[i].organizationId = last.orgs[2]

-----------------------------------------------------------------------------
(* Properties of the organization lookup (MemberSpec) *)

\* the memberships of user u with the given status
MembershipsWith(u, status) ==
    {m \in DOMAIN memberships : memberships[m].userId = u /\ memberships[m].status = status}

\* C13: after any sequence of createOrganization, inviteUserToOrganization,
\* acceptInvitation and removeUserFromOrganization, getUserOrganizations(user)
\* returns exactly the organizations in which the user's membership is ACTIVE,
\* each once: not those the user is only invited to, not those the user left.
UserOrganizationsAreTheActiveOnes ==
    [][ (RequestStep /\ last'.op = "getUserOrganizations")
        => /\ Range(last'.orgs) = ActiveOrgsOf(last'.userId)
           /\ Len(last'.orgs) = Cardinality(ActiveOrgsOf(last'.userId))
           /\ \A m \in DOMAIN memberships :
                (memberships[m].userId = last'.userId
                 /\ memberships[m].status \in {"INVITED", "SUSPENDED", "LEFT"})
                => memberships[m].organizationId \notin Range(last'.orgs) ]_vars

\* the lookup has just returned the one organization whose invitation the
\* user accepted, and not the one the user was removed from
UserOrganizationsWitness ==
    /\ last.op = "getUserOrganizations"
    /\ Len(last.orgs) = 1
    /\ \E m \in MembershipsWith(last.userId, "ACTIVE") :
          /\ memberships[m].role = "MEMBER"
          /\ memberships[m].organizationId = last.orgs[1]
    /\ MembershipsWith(last.userId, "LEFT") # {}

-----------------------------------------------------------------------------
(* Properties of the command parser (ParseSpec, WebhookSpec) *)

CommandNames == {"checkin", "checkout", "status", "vacation"}

\* "/" + name
TokenOf(name) ==
    CASE name = "checkin" -> "/checkin" [] name = "checkout" -> "/checkout"
      [] name = "status" -> "/status" [] name = "vacation" -> "/vacation"

\* what follows the first token of the body
RestOf(body) == SubSeq(body, 2, Len(body))

\* the body is "/" + name, alone or followed by whitespace and free text on
\* one line
IsCommandBody(body, name) ==
    /\ body # <<>> /\ Head(body) = TokenOf(name)
    /\ RestOf(body) # <<>> => IsBlank(Head(RestOf(body)))
    /\ \A i \in DOMAIN Trim(RestOf(body)) : Trim(RestOf(body))[i] # Nl

\* C14: for each of the four command names, a body "/" + name, optionally
\* followed by whitespace and free text, parses to that name with param = the
\* trimmed free text, and with param undefined when no text follows.
ParsesNameAndParam ==
    last.op = "parse"
    => \A name \in CommandNames :
         IsCommandBody(last.body, name)
         => /\ last.command = name
            /\ last.param = (IF Trim(RestOf(last.body)) = <<>> THEN UNDEFINED
                             ELSE Trim(RestOf(last.body)))

\* the body begins with one of the four command tokens as a whole token
StartsWithCommandToken(body) ==
    /\ body # <<>>
    /\ \E name \in CommandNames : Head(body) = TokenOf(name)
    /\ RestOf(body) # <<>> => IsBlank(Head(RestOf(body)))

\* C15: a message whose body does not start with one of the four command
\* tokens as a whole token yields no command; the adapter then resolves no
\* identity, calls no engine operation, sends no reply, changes no state and
\* answers the transport with success (ignored).
NonCommandIsIgnored ==
    [][ (RequestStep /\ last'.via = "chatwork" /\ last'.op # "rejected"
         /\ ~StartsWithCommandToken(last'.body))
        => /\ last'.op = "ignored" /\ last'.command = "none"
           /\ last'.http = 200
           /\ last'.reply = "none" /\ ~last'.engine /\ last'.userId = 0
           /\ sessions' = sessions ]_vars

-----------------------------------------------------------------------------
(* Properties of the list queries (PairSpec, RangeSpec) *)

\* the sessions of organization o whose end timestamp is null
OpenInOrganization(S, o) ==
    {i \in DOMAIN S : S[i].organizationId = o /\ S[i].checkoutAt = NullDate}

\* the sequence lists each of its elements once
NoRepeats(l) == \A j, k \in DOMAIN l : j # k => l[j] # l[k]

\* the step completes a status command that reached the roster
StatusRoster ==
    /\ RequestStep
    /\ last'.via \in {"slack", "chatwork"}
    /\ last'.op = "status" /\ last'.engine

\* C16: allActiveSessions(organization) returns exactly the organization's
\* sessions whose end is null, each once and with its owning user, none of
\* another organization and none that is closed; the status command's roster
\* lists exactly those sessions, and reports nobody working when there are none.
AllActiveSessionsAreTheOpenOnes ==
    [][ ((RequestStep /\ last'.op = "allActiveSessions") \/ StatusRoster)
        => /\ NoRepeats(last'.list)
           /\ Range(last'.list) = OpenInOrganization(sessions, last'.organizationId)
           /\ \A i \in Range(last'.list) :
                /\ sessions[i].organizationId = last'.organizationId
                /\ sessions[i].checkoutAt = NullDate
                /\ sessions[i].userId \in DOMAIN users
           /\ StatusRoster =>
                /\ (last'.reply = "nobody-working"
                    <=> OpenInOrganization(sessions, last'.organizationId) = {})
                /\ (last'.reply = "roster"
                    <=> OpenInOrganization(sessions, last'.organizationId) # {})
           /\ sessions' = sessions ]_vars

\* the roster a user has just been given lists a colleague's open session and
\* leaves out a session that is closed or belongs to the other organization
AllActiveSessionsWitness ==
    /\ last.via = "slack" /\ last.op = "status" /\ last.reply = "roster"
    /\ Len(last.list) = 1
    /\ sessions[last.list[1]].userId \notin ResolvedUsers("slack", last.platformId)
    /\ \E j \in DOMAIN sessions :
          /\ j # last.list[1]
          /\ (sessions[j].checkoutAt # NullDate
              \/ sessions[j].organizationId # last.organizationId)

\* instant a is earlier than instant b
Before(a, b) == a[1] < b[1] \/ (a[1] = b[1] /\ a[2] < b[2])

\* C17: sessionsInRange(user, organization, start, end) returns exactly the
\* sessions of that pair whose start lies in the closed interval [start, end],
\* open or closed, each once, ordered by start ascending, and no session of
\* another user or organization.
SessionsInRangeAreExact ==
    [][ (RequestStep /\ last'.op = "sessionsInRange")
        => /\ NoRepeats(last'.list)
           /\ Range(last'.list) =
                 {i \in DOMAIN sessions :
                     /\ sessions[i].userId = last'.userId
                     /\ sessions[i].organizationId = last'.organizationId
                     /\ ~Before(sessions[i].checkinAt, last'.from)
                     /\ ~Before(last'.to, sessions[i].checkinAt)}
           /\ \A j, k \in DOMAIN last'.list :
                j < k => ~Before(sessions[last'.list[k]].checkinAt,
                                 sessions[last'.list[j]].checkinAt)
           /\ sessions' = sessions ]_vars

\* a range query has just returned a closed session and a later open one, the
\* second of them started at the very end of the range
SessionsInRangeWitness ==
    /\ last.op = "sessionsInRange"
    /\ Len(last.list) = 2
    /\ sessions[last.list[1]].checkoutAt # NullDate
    /\ sessions[last.list[2]].checkoutAt = NullDate
    /\ Before(sessions[last.list[1]].checkinAt, sessions[last.list[2]].checkinAt)
    /\ sessions[last.list[2]].checkinAt = last.to

-----------------------------------------------------------------------------
(* Properties of the vacation command (AdapterSpec) *)

\* C18: on both adapters the vacation command goes through the identity steps
\* of the other commands: an unresolved platform user id gets the
\* registration-required message, a user with no ACTIVE membership the
\* no-organization message, any other user the not-yet-available stub; and no
\* session or membership is created or changed.
VacationGoesThroughIdentity ==
    [][ (RequestStep /\ last'.via \in {"slack", "chatwork"} /\ last'.op = "vacation")
        => /\ last'.reply =
                 (IF ResolvedUsers(last'.via, last'.platformId) = {}
                    THEN "registration-required"
                  ELSE IF \A u \in ResolvedUsers(last'.via, last'.platformId) :
                             ~HasActiveMembership(u)
                    THEN "no-organization"
                  ELSE "vacation-coming-soon")
           /\ sessions' = sessions
           /\ memberships' = memberships ]_vars

-----------------------------------------------------------------------------
(* Properties of the engine across users and organizations (PairSpec) *)

\* row i belongs to the pair the request was for
OfRequestedPair(S, i) ==
    S[i].userId = last'.userId /\ S[i].organizationId = last'.organizationId

\* C20: a checkin or checkout for (u, o), whether it succeeds or fails, leaves
\* every session of every other pair unchanged, and a checkin for a pair fails
\* only when that very pair has an open session: an open session of (u, o)
\* never makes a checkin for (u, o') or for (u', o) fail.
OtherPairsAreIndependent ==
    [][ (EngineCall("checkin") \/ EngineCall("checkout"))
        => /\ \A i \in DOMAIN sessions :
                ~OfRequestedPair(sessions, i)
                => (i \in DOMAIN sessions' /\ sessions'[i] = sessions[i])
           /\ \A i \in DOMAIN sessions' :
                i \notin DOMAIN sessions => OfRequestedPair(sessions', i)
           /\ (last'.op = "checkin"
               /\ OpenOf(sessions, last'.userId, last'.organizationId) = {})
              => last'.outcome = "ok" ]_vars

\* a user has just checked in to an organization in which a colleague has an
\* open session, which is as it was
OtherPairsWitness ==
    /\ last.via = "engine" /\ last.op = "checkin" /\ last.outcome = "ok"
    /\ \E i \in DOMAIN sessions :
          /\ sessions[i].organizationId = last.organizationId
          /\ sessions[i].userId # last.userId
          /\ sessions[i].checkoutAt = NullDate
          /\ i < last.session

-----------------------------------------------------------------------------
(* Properties of requests over a failing store (FailSpec) *)

\* the reply categories of the AlreadyCheckedIn and NotCheckedIn refusals, of
\* the confirmations and of the guidance texts
RefusalReplies == {"error"}
OtherReplies ==
    {"checked-in", "checked-out", "registration-required", "no-organization", "none"}

\* the step is a store call of request c failing
FailureOf(c) ==
    /\ calls[c].pc \in {"user", "orgs", "read", "write"}
    /\ calls'[c].pc = "done" /\ calls'[c].outcome = "StoreUnavailable"

\* C19: a store call failing while a request is handled stays inside that
\* request: its user gets a generic something-went-wrong reply, of another
\* category than the AlreadyCheckedIn / NotCheckedIn replies; no session is
\* left partly written; every other request in flight is as it was and
\* completes with its normal outcome.
StoreFailureStaysInRequest ==
    [][ /\ \A c \in DOMAIN calls :
             FailureOf(c)
             => /\ sessions' = sessions
                /\ \A d \in DOMAIN calls : d # c => calls'[d] = calls[d]
        /\ (RequestStep /\ last'.outcome = "StoreUnavailable")
            => /\ last'.reply \notin RefusalReplies
               /\ last'.reply \notin OtherReplies
               /\ (last'.via = "slack" => last'.ack)
               /\ (last'.via = "chatwork" => last'.http = 200)
        /\ (RequestStep /\ last'.outcome # "StoreUnavailable")
            => /\ last'.outcome \in {"ok", "AlreadyCheckedIn", "NotCheckedIn", "none"}
               /\ last'.reply =
                     (CASE last'.outcome = "ok" ->
                             (IF last'.op = "checkin" THEN "checked-in" ELSE "checked-out")
                        [] last'.outcome = "none" ->
                             (IF last'.userId = 0 THEN "registration-required"
                              ELSE "no-organization")
                        [] OTHER -> "error") ]_vars

-----------------------------------------------------------------------------
(* Properties of attendance against membership (AdapterSpec, OrgSpec) *)

\* user u's membership in organization o is ACTIVE
IsActiveMember(u, o) ==
    \E m \in DOMAIN memberships :
        /\ memberships[m].userId = u /\ memberships[m].organizationId = o
        /\ memberships[m].status = "ACTIVE"

\* C21: only ACTIVE memberships count for attendance: in every reachable
\* state each open session, and so each entry of an organization's status
\* roster, belongs to a user whose membership in that organization is ACTIVE.
OpenSessionsBelongToActiveMembers ==
    \A i \in DOMAIN sessions :
        sessions[i].checkoutAt = NullDate
        => IsActiveMember(sessions[i].userId, sessions[i].organizationId)

\* the open sessions of the users the request's platform user id is linked to
OpenOfRequester ==
    {i \in DOMAIN sessions :
        /\ sessions[i].userId \in ResolvedUsers(last'.via, last'.platformId)
        /\ sessions[i].checkoutAt = NullDate}

\* C22: if a user's checkin through an adapter succeeded and no checkout of
\* theirs has succeeded since, their next checkout command through an adapter
\* succeeds and closes that session, whatever membership operations happened
\* in between.
CheckoutClosesTheOpenSession ==
    [][ (RequestStep /\ last'.via \in {"slack", "chatwork"} /\ last'.op = "checkout"
         /\ OpenOfRequester # {})
        => /\ last'.outcome = "ok"
           /\ last'.session \in OpenOfRequester
           /\ sessions'[last'.session].checkoutAt # NullDate ]_vars

-----------------------------------------------------------------------------
(* Properties of one user on both chat platforms (ChatSpec) *)

\* the step completes a checkin or checkout through one adapter, sent by the
\* user whose checkin through the other adapter was the request before it
AfterCheckinThroughTheOther(name) ==
    /\ RequestStep
    /\ last'.via \in {"slack", "chatwork"} /\ last'.op = name
    /\ last.via \in {"slack", "chatwork"} /\ last.via # last'.via
    /\ last.op = "checkin" /\ last.outcome = "ok"
    /\ last.userId \in ResolvedUsers(last'.via, last'.platformId)
    /\ IsActiveMember(last.userId, last.organizationId)

\* C23: a user linked to both Slack and Chatwork has one attendance state:
\* after a successful checkin through either adapter a checkin through the
\* other fails as already checked in, and a checkout through the other closes
\* the session the first one opened.
AdaptersShareAttendance ==
    [][ /\ AfterCheckinThroughTheOther("checkin")
            => /\ last'.outcome = "AlreadyCheckedIn"
               /\ sessions' = sessions
        /\ AfterCheckinThroughTheOther("checkout")
            => /\ last'.outcome = "ok"
               /\ last'.session = last.session
               /\ sessions[last.session].checkoutAt = NullDate
               /\ sessions'[last.session].checkoutAt = now
               /\ OthersSame(last.session) ]_vars

\* a checkout through Chatwork has just closed, some time after it was opened,
\* the session that a Slack checkin opened with the note "office"
AdaptersShareWitness ==
    /\ last.via = "chatwork" /\ last.op = "checkout" /\ last.outcome = "ok"
    /\ sessions[last.session].note = <<"office">>
    /\ sessions[last.session].checkoutAt = now
    /\ sessions[last.session].checkinAt # now

\* the length of a closed session in milliseconds, and in hundredths of an
\* hour rounded to the nearest
DurationMs(row) ==
    (row.checkoutAt[1] - row.checkinAt[1]) * MsPerDay + (row.checkoutAt[2] - row.checkinAt[2])

DurationHundredths(row) ==
    (DurationMs(row) \div MsPerHour) * 100
        + (((DurationMs(row) % MsPerHour) * 100 + (MsPerHour \div 2)) \div MsPerHour)

\* C27: after every successful checkout, on both adapters, the reply reports
\* the closed session's duration (end - start) in hours, a zero-length session
\* included; the calculation-error text is never shown.
CheckoutShowsTheDuration ==
    [][ (/\ RequestStep
         /\ last'.via \in {"slack", "chatwork"} /\ last'.op = "checkout"
         /\ last'.outcome = "ok")
        => /\ sessions'[last'.session].checkoutAt # NullDate
           /\ last'.shown = <<"hours", DurationHundredths(sessions'[last'.session])>> ]_vars

\* the same, for the sessions that lasted some time
CheckoutShowsAPositiveDuration ==
    [][ (/\ RequestStep
         /\ last'.via \in {"slack", "chatwork"} /\ last'.op = "checkout"
         /\ last'.outcome = "ok"
         /\ DurationMs(sessions'[last'.session]) > 0)
        => last'.shown = <<"hours", DurationHundredths(sessions'[last'.session])>> ]_vars

-----------------------------------------------------------------------------
(* Properties of the note texts (NoteSpec) *)

\* the note text a request carried: the text of a Slack command, what follows
\* the command word in a Chatwork message
NoteTextOf(rec) == IF rec.via = "slack" THEN rec.text ELSE Tail(rec.body)

\* absent when the text holds nothing but blanks, the text without the blanks
\* around it otherwise
NoteOfText(text) == IF Trim(text) = EmptyText THEN UNDEFINED ELSE Trim(text)

\* the note column of a session opened with that text: null without a note
ColumnOfText(text) == IF Trim(text) = EmptyText THEN NULL ELSE Trim(text)

\* C25: for the same user, command and note text the Slack adapter and the
\* Chatwork adapter pass the same arguments to the engine: the text without
\* the blanks around it, and an absent note (never an empty one) when the text
\* is empty or only blanks; a checkin stores that note.
AdaptersPassTheSameNote ==
    [][ (/\ RequestStep
         /\ last'.via \in {"slack", "chatwork"} /\ last'.op \in {"checkin", "checkout"}
         /\ last'.engine)
        => /\ last'.note = NoteOfText(NoteTextOf(last'))
           /\ last'.note # EmptyText
           /\ (last'.op = "checkin" /\ last'.outcome = "ok")
                => sessions'[last'.session].note = ColumnOfText(NoteTextOf(last')) ]_vars

\* the same, for the texts that are empty or hold a word
AdaptersPassTheSameWrittenNote ==
    [][ (/\ RequestStep
         /\ last'.via \in {"slack", "chatwork"} /\ last'.op \in {"checkin", "checkout"}
         /\ last'.engine
         /\ (NoteTextOf(last') = EmptyText \/ Trim(NoteTextOf(last')) # EmptyText))
        => /\ last'.note = NoteOfText(NoteTextOf(last'))
           /\ (last'.op = "checkin" /\ last'.outcome = "ok")
                => sessions'[last'.session].note = ColumnOfText(NoteTextOf(last')) ]_vars

-----------------------------------------------------------------------------
(* Properties of the confirmation replies (BootSpec) *)

\* the step added a session of one of the requesters, open and begun now
SessionPersistedInStep ==
    /\ Len(sessions') = Len(sessions) + 1
    /\ sessions'[Len(sessions')].userId \in ResolvedUsers(last'.via, last'.platformId)
    /\ sessions'[Len(sessions')].checkinAt = now
    /\ sessions'[Len(sessions')].checkoutAt = NullDate

\* the step closed a session of one of the requesters that was open
OpenSessionClosedInStep ==
    \E i \in DOMAIN sessions :
        /\ sessions[i].userId \in ResolvedUsers(last'.via, last'.platformId)
        /\ sessions[i].checkoutAt = NullDate
        /\ sessions'[i].checkoutAt = now

\* C24: for every handler registered for the checkin and checkout commands,
\* those of the bootstrap file included, a confirmation is replied only when
\* the engine's checkin (checkout) succeeded within the same request: a user
\* told they checked in has a session persisted by that request, a user told
\* they checked out had their open session closed by it.
ConfirmationFollowsTheEngine ==
    [][ /\ (RequestStep /\ last'.reply = "checked-in")
            => (last'.engine /\ last'.outcome = "ok" /\ SessionPersistedInStep)
        /\ (RequestStep /\ last'.reply = "checked-out")
            => (last'.engine /\ last'.outcome = "ok" /\ OpenSessionClosedInStep) ]_vars

\* the same, for the handlers of the two handler classes alone
HandlerConfirmationFollowsTheEngine ==
    [][ /\ (RequestStep /\ last'.reply = "checked-in" /\ last'.userId # 0)
            => (last'.engine /\ last'.outcome = "ok" /\ SessionPersistedInStep)
        /\ (RequestStep /\ last'.reply = "checked-out" /\ last'.userId # 0)
            => (last'.engine /\ last'.outcome = "ok" /\ OpenSessionClosedInStep) ]_vars

-----------------------------------------------------------------------------
(* Properties of acceptInvitation (MemberSpec) *)

\* C26: a membership becomes ACTIVE through acceptInvitation only from
\* INVITED: a membership that is SUSPENDED or LEFT is never made ACTIVE, so a
\* user removed from an organization does not regain it by acceptInvitation.
OnlyInvitedBecomesActive ==
    [][ \A m \in DOMAIN memberships :
            memberships[m].status \in {"SUSPENDED", "LEFT"}
                => memberships'[m].status # "ACTIVE" ]_vars

====
